---- MODULE Spec2Model ----
(***************************************************************************)
(* ClipSense MCP server: the start of the process (credential resolution,  *)
(* client and server construction), the tool handlers of the server and    *)
(* the upload / start / poll / format pipeline of ClipSenseClient.          *)
(* Strings the code inspects character by character (the video path) are   *)
(* sequences of one-character strings; messages are sequences of parts.    *)
(***************************************************************************)
EXTENDS Integers, Sequences, FiniteSets, TLC

VARIABLES
  pc,           \* where each invocation of the handler stands
  args,         \* the tool-call request it was given
  stats,        \* what statSync returned for its videoPath
  trace,        \* the requests it issued and the waits it started, in order
  console,      \* the lines it wrote to stderr
  attempts,     \* pollJobStatus's attempt counter
  presignData,  \* the presign response
  jobId,        \* the id of the started job
  data,         \* the latest status response
  fullJob,      \* the detail response
  caught,       \* the error a request of the pipeline failed with
  response,     \* the envelope the handler returned
  thrown,       \* the error the handler threw instead
  proc,         \* where main() stands
  exitCode,     \* the status the process exited with
  env,          \* process.env.CLIPSENSE_API_KEY
  configFile,   \* the file at CONFIG_FILE
  apiKey,       \* what getApiKey resolved to
  client,       \* the ClipSenseClient main() constructed
  server,       \* the MCP server main() created
  listed,       \* the answer to the latest tools/list request
  stderr        \* the lines main() wrote to stderr

procVars == <<proc, exitCode, env, configFile, apiKey, client, server, listed, stderr>>

vars == <<pc, args, stats, trace, console, attempts, presignData, jobId,
          data, fullJob, caught, response, thrown, procVars>>

\* Tool invocations the server process can have in flight.
Invocations == {1, 2}

\* An absent (undefined) value, and a present one.
None == <<>>
Some(v) == <<v>>

---------------------------------------------------------------------------
(* Program constants *)

MAX_FILE_SIZE == 500 * 1024 * 1024

maxAttempts == 120

MB == 1024 * 1024

\* The handler's error marker (a cross-mark emoji followed by "Error: ").
ErrorMarker == "[x] Error: "

DefaultQuestion == "Analyze this bug video and identify the issue."

supportedFormats ==
  << <<"m","p","4">>, <<"m","o","v">>, <<"w","e","b","m">>, <<"a","v","i">>,
     <<"m","k","v">>, <<"f","l","v">>, <<"m","p","e","g">>, <<"m","p","g">>,
     <<"3","g","p">>, <<"w","m","v">> >>

---------------------------------------------------------------------------
(* String helpers: String.prototype.toLowerCase, split(".").pop(), basename *)

UpperCase == {"M", "P", "O", "V", "T", "X"}

LowerChar(c) ==
  CASE c = "M" -> "m" [] c = "P" -> "p" [] c = "O" -> "o" [] c = "V" -> "v"
    [] c = "T" -> "t" [] c = "X" -> "x" [] OTHER -> c

toLowerCase(s) == [k \in 1..Len(s) |-> LowerChar(s[k])]

\* Positions of character c in s.
IndicesOf(s, c) == {k \in 1..Len(s) : s[k] = c}

Max(S) == CHOOSE m \in S : \A n \in S : n <= m

\* s.split(c).pop(): the text after the last c, the whole string without one.
SplitPop(s, c) ==
  IF IndicesOf(s, c) = {} THEN s
  ELSE SubSeq(s, Max(IndicesOf(s, c)) + 1, Len(s))

RECURSIVE StripTrailing(_, _)
StripTrailing(s, c) ==
  IF Len(s) > 1 /\ s[Len(s)] = c THEN StripTrailing(SubSeq(s, 1, Len(s) - 1), c)
  ELSE s

\* path.basename (POSIX): the last path component, trailing slashes ignored.
basename(p) == SplitPop(StripTrailing(p, "/"), "/")

Includes(seq, x) == \E k \in 1..Len(seq) : seq[k] = x

\* const ext = videoPath.toLowerCase().split(".").pop() || ""
ExtOf(videoPath) == SplitPop(toLowerCase(videoPath), ".")

\* n.toFixed(2) of n = bytes / (1024 * 1024), as <<whole, hundredths>>.
Hundredths(bytes) == ((bytes % MB) * 100 + (MB \div 2)) \div MB

SizeMB(bytes) ==
  IF Hundredths(bytes) = 100 THEN <<(bytes \div MB) + 1, 0>>
  ELSE <<bytes \div MB, Hundredths(bytes)>>

Pad2(n) == IF n < 10 THEN "0" \o ToString(n) ELSE ToString(n)

toFixed2MB(bytes) == ToString(SizeMB(bytes)[1]) \o "." \o Pad2(SizeMB(bytes)[2])

---------------------------------------------------------------------------
(* Thrown errors: `response` is the HTTP response of an axios error (None  *)
(* for every other error), `code` the error code, `message` the message.   *)

Err(resp, code, message) == [response |-> resp, code |-> code, message |-> message]

PlainError(message) == Err(None, "", message)

\* A character sequence as a string (template-literal interpolation).
RECURSIVE Str(_)
Str(s) == IF s = <<>> THEN "" ELSE s[1] \o Str(Tail(s))

\* array.join(", ") of an array of character sequences.
RECURSIVE JoinFormats(_)
JoinFormats(fs) ==
  IF fs = <<>> THEN ""
  ELSE IF Len(fs) = 1 THEN Str(fs[1])
  ELSE Str(fs[1]) \o ", " \o JoinFormats(Tail(fs))

\* `${videoPath}` of a possibly undefined path.
ShowPath(vp) == IF vp = None THEN "undefined" ELSE Str(vp[1])

---------------------------------------------------------------------------
(* Validation: analyzeVideo up to its try block.  `vp` is the videoPath    *)
(* argument (None when undefined), `st` what statSync finds at that path.  *)

\* statSync(videoPath): a non-string path is a TypeError before any lookup.
statSync(vp, entry) ==
  IF vp = None
  THEN [err |-> "ERR_INVALID_ARG_TYPE", isFile |-> FALSE, size |-> 0]
  ELSE entry

NotFoundError(vp) ==
  PlainError(<<"Video file not found: ", ShowPath(vp), "Please check:">>)

AccessError(vp, code) ==
  PlainError(<<"Failed to access video file: ", code, "Path: ", ShowPath(vp)>>)

NotAFileError(vp) ==
  PlainError(<<"Path is not a file: ", ShowPath(vp),
               "Please provide a path to a video file, not a directory.">>)

EmptyFileError(vp) ==
  PlainError(<<"Video file is empty (0 bytes): ", ShowPath(vp)>>)

TooLargeError(vp, size) ==
  PlainError(<<"Video file too large: ", toFixed2MB(size), "MB (max: ",
               ToString(MAX_FILE_SIZE \div MB), "MB)", "File: ", ShowPath(vp)>>)

UnsupportedFormatError(vp) ==
  PlainError(<<"Unsupported video format: .", Str(ExtOf(vp[1])),
               "Supported formats: ", JoinFormats(supportedFormats),
               "File: ", ShowPath(vp)>>)

\* Mutant: the empty-file check is missing.
ValidateWithoutEmptyCheck(vp, st) ==
  IF st.err = "ENOENT" THEN Some(NotFoundError(vp))
  ELSE IF st.err # "" THEN Some(AccessError(vp, st.err))
  ELSE IF ~st.isFile THEN Some(NotAFileError(vp))
  ELSE IF st.size > MAX_FILE_SIZE THEN Some(TooLargeError(vp, st.size))
  ELSE IF ~Includes(supportedFormats, ExtOf(vp[1])) THEN Some(UnsupportedFormatError(vp))
  ELSE None

\* Mutant: the size limit is exclusive (>= for >).
ValidateExclusiveLimit(vp, st) ==
  IF st.err = "ENOENT" THEN Some(NotFoundError(vp))
  ELSE IF st.err # "" THEN Some(AccessError(vp, st.err))
  ELSE IF ~st.isFile THEN Some(NotAFileError(vp))
  ELSE IF st.size = 0 THEN Some(EmptyFileError(vp))
  ELSE IF st.size >= MAX_FILE_SIZE THEN Some(TooLargeError(vp, st.size))
  ELSE IF ~Includes(supportedFormats, ExtOf(vp[1])) THEN Some(UnsupportedFormatError(vp))
  ELSE None

\* Mutant: the extension is checked before the file's kind and size.
ValidateExtensionFirst(vp, st) ==
  IF st.err = "ENOENT" THEN Some(NotFoundError(vp))
  ELSE IF st.err # "" THEN Some(AccessError(vp, st.err))
  ELSE IF ~Includes(supportedFormats, ExtOf(vp[1])) THEN Some(UnsupportedFormatError(vp))
  ELSE IF ~st.isFile THEN Some(NotAFileError(vp))
  ELSE IF st.size = 0 THEN Some(EmptyFileError(vp))
  ELSE IF st.size > MAX_FILE_SIZE THEN Some(TooLargeError(vp, st.size))
  ELSE None

\* The error validation throws, None when the path passes every check.
Validate(vp, st) ==
  IF st.err = "ENOENT" THEN Some(NotFoundError(vp))
  ELSE IF st.err # "" THEN Some(AccessError(vp, st.err))
  ELSE IF ~st.isFile THEN Some(NotAFileError(vp))
  ELSE IF st.size = 0 THEN Some(EmptyFileError(vp))
  ELSE IF st.size > MAX_FILE_SIZE THEN Some(TooLargeError(vp, st.size))
  ELSE IF ~Includes(supportedFormats, ExtOf(vp[1])) THEN Some(UnsupportedFormatError(vp))
  ELSE None

\* getContentType: the extension's entry of `types`, "video/mp4" without one.
TypesTable(ext) ==
  CASE ext = <<"m","p","4">> -> "video/mp4"
    [] ext = <<"m","o","v">> -> "video/quicktime"
    [] ext = <<"w","e","b","m">> -> "video/webm"
    [] ext = <<"a","v","i">> -> "video/x-msvideo"
    [] ext = <<"m","k","v">> -> "video/x-matroska"
    [] ext = <<"f","l","v">> -> "video/x-flv"
    [] ext = <<"m","p","e","g">> -> "video/mpeg"
    [] ext = <<"m","p","g">> -> "video/mpeg"
    [] ext = <<"3","g","p">> -> "video/3gpp"
    [] ext = <<"w","m","v">> -> "video/x-ms-wmv"
    [] OTHER -> ""

\* Mutant: the extension is looked up without lower-casing the path.
getContentTypeCaseSensitive(filepath) ==
  IF TypesTable(SplitPop(filepath, ".")) # ""
  THEN TypesTable(SplitPop(filepath, "."))
  ELSE "video/mp4"

getContentType(filepath) ==
  IF TypesTable(SplitPop(toLowerCase(filepath), ".")) # ""
  THEN TypesTable(SplitPop(toLowerCase(filepath), "."))
  ELSE "video/mp4"

---------------------------------------------------------------------------
(* Errors raised by the HTTP client (axios).                                *)

\* An HTTP error response: status code and the `detail` / `error` fields of
\* its body ("" when the field is absent).
HttpResponse(status, detail, error) ==
  [status |-> status, detail |-> detail, error |-> error]

HttpError(status, detail, error) ==
  Err(Some(HttpResponse(status, detail, error)),
      IF status >= 500 THEN "ERR_BAD_RESPONSE" ELSE "ERR_BAD_REQUEST",
      <<"Request failed with status code " \o ToString(status)>>)

NetworkError(code) == Err(None, code, <<"network error " \o code>>)

---------------------------------------------------------------------------
(* pollJobStatus: the errors it throws and its catch block.                 *)

ResultsUrl(job) == "https://clipsense.app/results/" \o job

\* Mutant: the server's error_message is dropped from the diagnosis.
ErrorDetailsDropped(error_message) == "Unknown error"

\* data.error_message || "Unknown error"
ErrorDetails(error_message) ==
  IF error_message # "" THEN error_message ELSE "Unknown error"

AnalysisFailedError(error_message, job) ==
  PlainError(<<"Analysis failed", "Error details: ", ErrorDetails(error_message),
               "Contact support@clipsense.app with job ID: ", job>>)

LostConnectionError(job, message) ==
  PlainError(<<"Lost connection to ClipSense API",
               "Your video is still being processed (Job ID: ", job,
               "Visit: ", ResultsUrl(job), "Error: ">> \o message)

TimeoutError(job) ==
  PlainError(<<"Analysis timeout", "Visit: ", ResultsUrl(job),
               "Contact support@clipsense.app with job ID: ", job>>)

\* Mutant: the catch reports a lost connection as the poll timeout.
PollCatchAsTimeout(error, job) ==
  IF error.code \in {"ECONNREFUSED", "ENOTFOUND", "ETIMEDOUT"}
  THEN TimeoutError(job)
  ELSE error

\* The catch block of the poll loop.
PollCatch(error, job) ==
  IF error.code \in {"ECONNREFUSED", "ENOTFOUND", "ETIMEDOUT"}
  THEN LostConnectionError(job, error.message)
  ELSE error

\* Mutant: the loop bound is off by one (<= for <).
LoopContinuesInclusive(n) == n <= maxAttempts

\* while (attempts < maxAttempts)
LoopContinues(n) == n < maxAttempts

\* Mutant: the notice is also due on the first check (attempts > 0 is lost).
ProgressDueFromZero(n) == n % 6 = 0

\* if (attempts % 6 === 0 && attempts > 0)
ProgressDue(n) == n % 6 = 0 /\ n > 0

\* ((attempts * 5) / 60).toFixed(1), for the multiples of 6 it is computed on.
Elapsed(n) == ToString((n * 5) \div 60) \o "." \o ToString((((n * 5) % 60) * 10) \div 60)

---------------------------------------------------------------------------
(* analyzeVideo: the catch block of its try.                                *)

\* error.response.data?.detail || error.response.data?.error || error.message
ServerMessage(error) ==
  IF error.response[1].detail # "" THEN <<error.response[1].detail>>
  ELSE IF error.response[1].error # "" THEN <<error.response[1].error>>
  ELSE error.message

AuthenticationError(message) ==
  PlainError(<<"Authentication failed", "Your API key is invalid or expired.",
               "Error: ">> \o message)

RateLimitError(message) ==
  PlainError(<<"Rate limit exceeded", "You've used all your monthly analyses.",
               "Error: ">> \o message)

PayloadTooLargeError(vp, message) ==
  PlainError(<<"Video file too large for server", "Compress with: ffmpeg -i ",
               ShowPath(vp), "Error: ">> \o message)

ServerError(status, message) ==
  PlainError(<<"ClipSense server error (", ToString(status), ")",
               "Error: ">> \o message)

ApiError(status, message) ==
  PlainError(<<"API error (", ToString(status), "): ">> \o message)

CannotConnectError(message) ==
  PlainError(<<"Cannot connect to ClipSense API", "Error: ">> \o message)

RequestTimeoutError(message) ==
  PlainError(<<"Request timeout", "Error: ">> \o message)

\* Mutant: the server-error test is status > 500.
ClassifyHttpAbove500(error, vp) ==
  IF error.response[1].status = 401 \/ error.response[1].status = 403
  THEN AuthenticationError(ServerMessage(error))
  ELSE IF error.response[1].status = 429 THEN RateLimitError(ServerMessage(error))
  ELSE IF error.response[1].status = 413
  THEN PayloadTooLargeError(vp, ServerMessage(error))
  ELSE IF error.response[1].status > 500
  THEN ServerError(error.response[1].status, ServerMessage(error))
  ELSE ApiError(error.response[1].status, ServerMessage(error))

\* The HTTP branch: if (error.response) { ... }
ClassifyHttp(error, vp) ==
  IF error.response[1].status = 401 \/ error.response[1].status = 403
  THEN AuthenticationError(ServerMessage(error))
  ELSE IF error.response[1].status = 429 THEN RateLimitError(ServerMessage(error))
  ELSE IF error.response[1].status = 413
  THEN PayloadTooLargeError(vp, ServerMessage(error))
  ELSE IF error.response[1].status >= 500
  THEN ServerError(error.response[1].status, ServerMessage(error))
  ELSE ApiError(error.response[1].status, ServerMessage(error))

\* Mutant: an error without a response and without a known code is reported
\* as a connectivity error instead of being rethrown.
AnalyzeCatchReclassifying(error, vp) ==
  IF error.response # None THEN ClassifyHttp(error, vp)
  ELSE IF error.code = "ETIMEDOUT" \/ error.code = "ECONNABORTED"
  THEN RequestTimeoutError(error.message)
  ELSE CannotConnectError(error.message)

AnalyzeCatch(error, vp) ==
  IF error.response # None THEN ClassifyHttp(error, vp)
  ELSE IF error.code = "ECONNREFUSED" \/ error.code = "ENOTFOUND"
  THEN CannotConnectError(error.message)
  ELSE IF error.code = "ETIMEDOUT" \/ error.code = "ECONNABORTED"
  THEN RequestTimeoutError(error.message)
  ELSE error

---------------------------------------------------------------------------
(* formatAnalysis.  A job is [result, frames_extracted, tokens_used,        *)
(* cost_total], each None when absent; result is [response |-> ...]; the    *)
(* cost is counted in units of 1/100000 dollar.                             *)

Pad4(n) ==
  IF n < 10 THEN "000" \o ToString(n)
  ELSE IF n < 100 THEN "00" \o ToString(n)
  ELSE IF n < 1000 THEN "0" \o ToString(n)
  ELSE ToString(n)

\* cost.toFixed(4): rounded to the nearest 1/10000 dollar.
toFixed4(cost) ==
  ToString(((cost + 5) \div 10) \div 10000) \o "." \o Pad4(((cost + 5) \div 10) % 10000)

\* !result?.response
MissingResponse(job) ==
  \/ job.result = None
  \/ job.result[1].response = None
  \/ job.result[1].response = Some("")

NoResultError == PlainError(<<"No analysis result found">>)

\* job.frames_extracted || "N/A"
FramesText(job) ==
  IF job.frames_extracted = None \/ job.frames_extracted = Some(0) THEN "N/A"
  ELSE ToString(job.frames_extracted[1])

\* tokens_used || 0
TokensText(job) ==
  IF job.tokens_used = None THEN "0" ELSE ToString(job.tokens_used[1])

\* (cost_total || 0).toFixed(4)
CostText(job) ==
  IF job.cost_total = None THEN toFixed4(0) ELSE toFixed4(job.cost_total[1])

\* The rendered report (the template literal, trimmed).
Report(job) ==
  <<"## Mobile Bug Analysis", job.result[1].response[1], "---",
    "**Analysis Details:**", "- Frames analyzed: ", FramesText(job),
    "- Tokens used: ", TokensText(job), "- Cost: $", CostText(job)>>

\* Mutant: a job without a response is rendered with an empty analysis.
formatAnalysisLenient(job) ==
  IF MissingResponse(job)
  THEN [threw |-> FALSE, error |-> NoResultError,
        text |-> <<"## Mobile Bug Analysis", "", "---", "**Analysis Details:**",
                   "- Frames analyzed: ", FramesText(job), "- Tokens used: ",
                   TokensText(job), "- Cost: $", CostText(job)>>]
  ELSE [threw |-> FALSE, error |-> NoResultError, text |-> Report(job)]

\* formatAnalysis(job): [threw, error] or [threw, text].
formatAnalysis(job) ==
  IF MissingResponse(job) THEN [threw |-> TRUE, error |-> NoResultError, text |-> <<>>]
  ELSE [threw |-> FALSE, error |-> NoResultError, text |-> Report(job)]

---------------------------------------------------------------------------
(* The CallToolRequestSchema handler's two returns.                         *)

SuccessEnvelope(text) == [text |-> text, isError |-> FALSE]

\* Mutant: the error envelope does not set isError.
ErrorEnvelopeUnflagged(error) ==
  [text |-> <<ErrorMarker>> \o error.message \o <<"\n\n", "">>, isError |-> FALSE]

\* text: `<marker>${error.message}\n\n${error.details || ""}`
ErrorEnvelope(error) ==
  [text |-> <<ErrorMarker>> \o error.message \o <<"\n\n", "">>, isError |-> TRUE]

---------------------------------------------------------------------------
(* Inputs: tool-call requests, the file system, the service's answers.      *)

Dir == <<"/", "t", "/">>

GoodPaths == {Dir \o <<"v", ".">> \o supportedFormats[k] : k \in 1..Len(supportedFormats)}

Paths ==
  GoodPaths \cup
  { Dir \o <<"v", ".", "M", "P", "4">>,           \* upper case
    Dir \o <<"v", ".", "M", "o", "V">>,           \* mixed case
    Dir \o <<"v", ".", "t", "x", "t", ".", "m", "p", "4">>,
    Dir \o <<"v", ".", "m", "p", "4", ".", "t", "x", "t">>,
    Dir \o <<"v", ".", "t", "x", "t">>,
    Dir \o <<"v", ".", "m", "p", "3">>,
    Dir \o <<"v", ".">>,                          \* trailing dot
    Dir \o <<"v">>,                               \* no dot at all
    Dir \o <<"m", "p", "4">>,                     \* a dot-less name in a directory
    <<"/", "t", ".", "m", "p", "4", "/", "v">>,   \* the dot is in the directory
    <<"m", "p", "4">>,                            \* a relative, dot-less name
    Dir \o <<".", "m", "p", "4">> }               \* a dot file

MainPath == Dir \o <<"v", ".", "m", "p", "4">>

Request(name, arguments) == [name |-> name, arguments |-> arguments]

Arguments(videoPath, question) == [videoPath |-> videoPath, question |-> question]

Requests ==
  {Request("analyze-video", Some(Arguments(Some(p), None))) : p \in Paths} \cup
  { Request("analyze-video", Some(Arguments(Some(MainPath), Some("why does it crash?")))),
    Request("analyze-video", Some(Arguments(Some(MainPath), Some("")))),
    Request("analyze-video", Some(Arguments(None, None))),
    Request("analyze-video", None),
    Request("other-tool", Some(Arguments(Some(MainPath), None))) }

Sizes == {0, 1, 524288000, 524288001}

Stat(err, isFile, size) == [err |-> err, isFile |-> isFile, size |-> size]

\* What the file system can hold at a path.
StatResults ==
  {Stat(e, FALSE, 0) : e \in {"ENOENT", "EACCES"}} \cup
  {Stat("", f, s) : f \in BOOLEAN, s \in Sizes}

\* The file system: any path can be missing, unreadable, a directory or a
\* file of any of the sizes.
FileSystem(p) == StatResults

HttpStatuses == {400, 401, 403, 404, 413, 429, 499, 500, 503}

HttpErrors ==
  {HttpError(st, "", "") : st \in HttpStatuses} \cup
  {HttpError(st, "detail text", "error text") : st \in {429, 500}} \cup
  {HttpError(st, "", "error text") : st \in {401, 404}}

NetworkCodes == {"ECONNREFUSED", "ENOTFOUND", "ETIMEDOUT", "ECONNABORTED", "ECONNRESET"}

\* Every way a request can fail.
RequestErrors == HttpErrors \cup {NetworkError(c) : c \in NetworkCodes}

\* The upload target and the job id the service issues to invocation i.
PresignFor(i) ==
  [upload_url |-> "https://r2.example/upload/" \o ToString(i),
   video_key |-> "videos/key_" \o ToString(i)]

JobIdFor(i) == "job_" \o ToString(i)

StatusData(status, error_message) == [status |-> status, error_message |-> error_message]

StatusResponses ==
  {StatusData(s, "") : s \in {"queued", "processing", "archived", "completed", "failed"}}
  \cup {StatusData("failed", "decoder crashed")}

Job(result, frames, tokens, cost) ==
  [result |-> result, frames_extracted |-> frames, tokens_used |-> tokens,
   cost_total |-> cost]

Result(text) == Some([response |-> Some(text)])

Jobs ==
  {Job(r, Some(7), Some(100), Some(1230)) :
     r \in {None, Some([response |-> None]), Result(""), Result("The app crashes on tap.")}}
  \cup {Job(Result("X"), f, Some(100), Some(1230)) : f \in {None, Some(0)}}
  \cup {Job(Result("X"), Some(7), None, Some(1230))}
  \cup {Job(Result("X"), Some(7), Some(100), c) : c \in {None, Some(1234567)}}

---------------------------------------------------------------------------
(* The requests an invocation issues.                                       *)

Event(op, auth, url, body) == [op |-> op, auth |-> auth, url |-> url, body |-> body]

\* this.client.post("/upload/presign", {filename, content_type, file_size})
PresignRequest(vp, st) ==
  Event("presign", TRUE, "/upload/presign",
        <<Str(basename(vp)), getContentType(vp), ToString(st.size)>>)

\* Mutant: the upload is sent through the client's axios instance.
PutRequestThroughClient(vp, presign) ==
  Event("put", TRUE, presign.upload_url, <<getContentType(vp)>>)

\* axios.put(upload_url, fileStream, {headers: {"Content-Type": ...}})
PutRequest(vp, presign) ==
  Event("put", FALSE, presign.upload_url, <<getContentType(vp)>>)

\* this.client.post("/analyze/start", {video_key, filename, question, analysis_type})
StartRequest(vp, presign, question) ==
  Event("start", TRUE, "/analyze/start",
        <<presign.video_key, Str(basename(vp)), question, "mobile_bug">>)

\* Mutant: the poll loop asks the detail endpoint (the "/status" suffix is lost).
StatusRequestNoSuffix(job) == Event("detail", TRUE, "/analyze/jobs/" \o job, <<>>)

\* this.client.get(`/analyze/jobs/${jobId}/status`)
StatusRequest(job) == Event("status", TRUE, "/analyze/jobs/" \o job \o "/status", <<>>)

\* this.client.get(`/analyze/jobs/${jobId}`)
DetailRequest(job) == Event("detail", TRUE, "/analyze/jobs/" \o job, <<>>)

\* Mutant: the poll interval is 500 ms.
WaitEventShort == Event("wait", FALSE, "", <<"500">>)

\* await new Promise((resolve) => setTimeout(resolve, 5000))
WaitEvent == Event("wait", FALSE, "", <<"5000">>)

\* question || "Analyze this bug video and identify the issue."
QuestionOf(arguments) ==
  IF arguments.question = None \/ arguments.question = Some("") THEN DefaultQuestion
  ELSE arguments.question[1]

---------------------------------------------------------------------------
(* Process start: ApiKeyManager.getApiKey and main().                       *)

\* The file at CONFIG_FILE: whether it exists, can be read, parses as JSON,
\* parses to an object, and that object's apiKey field.
ConfigFile(exists, readable, parses, object, key) ==
  [exists |-> exists, readable |-> readable, parses |-> parses, object |-> object,
   apiKey |-> key]

NoConfigFile == ConfigFile(FALSE, FALSE, FALSE, FALSE, None)

ConfigFiles ==
  { NoConfigFile,
    ConfigFile(TRUE, FALSE, FALSE, FALSE, None),          \* unreadable
    ConfigFile(TRUE, TRUE, FALSE, FALSE, None),           \* malformed JSON
    ConfigFile(TRUE, TRUE, TRUE, FALSE, None),            \* the JSON text `null`
    ConfigFile(TRUE, TRUE, TRUE, TRUE, None),             \* {}
    ConfigFile(TRUE, TRUE, TRUE, TRUE, Some("")),         \* {"apiKey": ""}
    ConfigFile(TRUE, TRUE, TRUE, TRUE, Some("sk_cfg")) }  \* {"apiKey": "sk_cfg"}

Environments == {None, Some(""), Some("sk_env")}

\* The try block of getApiKey: [threw, key], key the value it returns
\* (None when it falls through).
ReadConfig(file) ==
  IF ~file.exists THEN [threw |-> FALSE, key |-> None]
  ELSE IF ~file.readable \/ ~file.parses \/ ~file.object
  THEN [threw |-> TRUE, key |-> None]
  ELSE IF file.apiKey # None /\ file.apiKey # Some("")
  THEN [threw |-> FALSE, key |-> file.apiKey]
  ELSE [threw |-> FALSE, key |-> None]

\* Mutant: the config file is read without the try/catch.
getApiKeyUncaught(envKey, file) ==
  IF envKey # None /\ envKey # Some("") THEN [threw |-> FALSE, key |-> envKey]
  ELSE ReadConfig(file)

\* getApiKey(): [threw, key], key None for null.
getApiKey(envKey, file) ==
  IF envKey # None /\ envKey # Some("") THEN [threw |-> FALSE, key |-> envKey]
  ELSE [threw |-> FALSE, key |-> ReadConfig(file).key]

API_BASE_URL == "https://api.clipsense.app/api/v1"

\* new ClipSenseClient(apiKey): the defaults of its axios instance.
ClipSenseClient(key) ==
  [baseURL |-> API_BASE_URL, Authorization |-> "Bearer " \o key, timeout |-> "300000"]

\* The answer of the ListToolsRequestSchema handler.
Tools == <<[name |-> "analyze-video", required |-> <<"videoPath">>]>>

\* The lines main() writes to stderr, their marks in ASCII and the hint of
\* the first left out.
NoKeyLine == "[x] No API key found."

RunningLine == "[ok] ClipSense MCP server running"

FatalLine == "Fatal error:"

---------------------------------------------------------------------------
(* State machine.  pc: "idle" (not called), "presign" / "put" / "start" /   *)
(* "status" / "detail" (that request is in flight), "wait" (the 5 s timer   *)
(* runs), "done" (the handler returned an envelope), "threw" (it threw).    *)

NoPresign == [upload_url |-> "", video_key |-> ""]

\* No tool call has been handled.
NoInvocations ==
  /\ pc = [i \in Invocations |-> "idle"]
  /\ args = [i \in Invocations |-> Request("", None)]
  /\ stats = [i \in Invocations |-> Stat("", FALSE, 0)]
  /\ trace = [i \in Invocations |-> <<>>]
  /\ console = [i \in Invocations |-> <<>>]
  /\ attempts = [i \in Invocations |-> 0]
  /\ presignData = [i \in Invocations |-> NoPresign]
  /\ jobId = [i \in Invocations |-> ""]
  /\ data = [i \in Invocations |-> None]
  /\ fullJob = [i \in Invocations |-> None]
  /\ caught = [i \in Invocations |-> None]
  /\ response = [i \in Invocations |-> None]
  /\ thrown = [i \in Invocations |-> None]

\* The process is started with the key variable `e` and the config file `f`.
Started(e, f) ==
  /\ proc = "main"
  /\ exitCode = None
  /\ env = e
  /\ configFile = f
  /\ apiKey = None
  /\ client = None
  /\ server = "none"
  /\ listed = None
  /\ stderr = <<>>

\* main() has run to its end with the key `key` from the environment.
Running(key) ==
  /\ proc = "running"
  /\ exitCode = None
  /\ env = Some(key)
  /\ configFile = NoConfigFile
  /\ apiKey = Some(key)
  /\ client = Some(ClipSenseClient(key))
  /\ server = "connected"
  /\ listed = None
  /\ stderr = <<RunningLine>>

\* The server is up, with a key from the environment, and idle.
Init == NoInvocations /\ Running("sk_env")

\* The process has just been started, in any environment.
InitMain ==
  /\ NoInvocations
  /\ \E e \in Environments : \E f \in ConfigFiles : Started(e, f)

\* The videoPath argument of invocation i, and its question.
VideoPath(i) == args[i].arguments[1].videoPath

Question(i) == QuestionOf(args[i].arguments[1])

UnknownToolError(name) == PlainError(<<"Unknown tool: ", name>>)

\* const { videoPath, question } = request.params.arguments, of undefined
DestructureError == PlainError(<<"Cannot destructure property 'videoPath' of undefined">>)

\* The handler returns the error envelope for `error`; `raw` is the request
\* error behind it, None when no request failed.
Fails(i, raw, error) ==
  /\ pc' = [pc EXCEPT ![i] = "done"]
  /\ caught' = [caught EXCEPT ![i] = raw]
  /\ response' = [response EXCEPT ![i] = Some(ErrorEnvelope(error))]

\* The handler is called with one of `requests`, on a file system that has
\* one of files[p] at path p: the tool-name test, the destructuring,
\* validation and, for a valid file, the presign request.
HandleCall(i, requests, files) ==
  /\ server = "connected"
  /\ pc[i] = "idle"
  /\ \E req \in requests :
       \E entry \in (IF req.arguments = None \/ req.arguments[1].videoPath = None
                     THEN {Stat("ENOENT", FALSE, 0)}
                     ELSE files[req.arguments[1].videoPath[1]]) :
         /\ args' = [args EXCEPT ![i] = req]
         /\ IF req.name # "analyze-video"
            THEN /\ pc' = [pc EXCEPT ![i] = "threw"]
                 /\ thrown' = [thrown EXCEPT ![i] = Some(UnknownToolError(req.name))]
                 /\ UNCHANGED <<stats, trace, caught, response>>
            ELSE IF req.arguments = None
            THEN /\ pc' = [pc EXCEPT ![i] = "threw"]
                 /\ thrown' = [thrown EXCEPT ![i] = Some(DestructureError)]
                 /\ UNCHANGED <<stats, trace, caught, response>>
            ELSE LET vp == req.arguments[1].videoPath
                     st == statSync(vp, entry)
                 IN /\ stats' = [stats EXCEPT ![i] = st]
                    /\ IF Validate(vp, st) # None
                       THEN /\ Fails(i, None, Validate(vp, st)[1])
                            /\ UNCHANGED <<trace, thrown>>
                       ELSE /\ pc' = [pc EXCEPT ![i] = "presign"]
                            /\ trace' = [trace EXCEPT ![i] = Append(@, PresignRequest(vp[1], st))]
                            /\ UNCHANGED <<caught, response, thrown>>
  /\ UNCHANGED <<console, attempts, presignData, jobId, data, fullJob>>

\* The handler is called with any request, on any file system.
CallTool(i) == HandleCall(i, Requests, [p \in Paths |-> FileSystem(p)])

\* A request of analyzeVideo outside the poll loop fails with `error`.
RequestFails(i, error) ==
  /\ Fails(i, Some(error), AnalyzeCatch(error, VideoPath(i)))
  /\ UNCHANGED <<args, stats, trace, console, attempts, presignData, jobId, data,
                 fullJob, thrown>>

\* A request inside the poll loop's try fails with `error`.
PollRequestFails(i, error) ==
  /\ Fails(i, Some(error), AnalyzeCatch(PollCatch(error, jobId[i]), VideoPath(i)))
  /\ UNCHANGED <<args, stats, trace, console, attempts, presignData, jobId, data,
                 fullJob, thrown>>

UploadingLine(vp, st) ==
  "Uploading " \o Str(basename(vp)) \o " (" \o toFixed2MB(st.size) \o "MB)..."

\* The presign request returns: the PUT follows.
PresignReturns(i) ==
  /\ pc[i] = "presign"
  /\ \/ /\ presignData' = [presignData EXCEPT ![i] = PresignFor(i)]
        /\ console' = [console EXCEPT ![i] = Append(@, UploadingLine(VideoPath(i)[1], stats[i]))]
        /\ trace' = [trace EXCEPT ![i] = Append(@, PutRequest(VideoPath(i)[1], PresignFor(i)))]
        /\ pc' = [pc EXCEPT ![i] = "put"]
        /\ UNCHANGED <<args, stats, attempts, jobId, data, fullJob, caught, response, thrown>>
     \/ \E e \in RequestErrors : RequestFails(i, e)

\* The PUT was accepted: the start request follows.
PutSucceeds(i) ==
  /\ console' = [console EXCEPT ![i] = Append(@, "Upload complete. Starting analysis...")]
  /\ trace' = [trace EXCEPT ![i] =
                 Append(@, StartRequest(VideoPath(i)[1], presignData[i], Question(i)))]
  /\ pc' = [pc EXCEPT ![i] = "start"]
  /\ UNCHANGED <<args, stats, attempts, presignData, jobId, data, fullJob, caught,
                 response, thrown>>

\* Mutant: a failed PUT is retried once before the failure is reported.
PutReturnsRetrying(i) ==
  /\ pc[i] = "put"
  /\ \/ PutSucceeds(i)
     \/ \E e \in RequestErrors :
          IF caught[i] = None
          THEN /\ caught' = [caught EXCEPT ![i] = Some(e)]
               /\ trace' = [trace EXCEPT ![i] =
                              Append(@, PutRequest(VideoPath(i)[1], presignData[i]))]
               /\ UNCHANGED <<pc, args, stats, console, attempts, presignData, jobId,
                              data, fullJob, response, thrown>>
          ELSE RequestFails(i, e)

\* The PUT returns.
PutReturns(i) ==
  /\ pc[i] = "put"
  /\ \/ PutSucceeds(i)
     \/ \E e \in RequestErrors : RequestFails(i, e)

\* Mutant: the job id is kept in a field of the shared client, so every
\* invocation in flight sees the id of the latest started job.
StartReturnsSharedJob(i) ==
  /\ pc[i] = "start"
  /\ \/ /\ jobId' = [j \in Invocations |-> JobIdFor(i)]
        /\ console' = [console EXCEPT ![i] =
                         Append(@, "Analysis job started (ID: " \o JobIdFor(i) \o ").")]
        /\ attempts' = [attempts EXCEPT ![i] = 0]
        /\ trace' = [trace EXCEPT ![i] = Append(@, StatusRequest(JobIdFor(i)))]
        /\ pc' = [pc EXCEPT ![i] = "status"]
        /\ UNCHANGED <<caught, response, args, stats, presignData, data, fullJob, thrown>>
     \/ \E e \in RequestErrors : RequestFails(i, e)

\* The start request returns: pollJobStatus is entered and, its loop
\* condition holding for attempts = 0, issues the first status check.
StartReturns(i) ==
  /\ pc[i] = "start"
  /\ \/ /\ jobId' = [jobId EXCEPT ![i] = JobIdFor(i)]
        /\ console' = [console EXCEPT ![i] =
                         Append(@, "Analysis job started (ID: " \o JobIdFor(i) \o ").")]
        /\ attempts' = [attempts EXCEPT ![i] = 0]
        /\ IF LoopContinues(0)
           THEN /\ trace' = [trace EXCEPT ![i] = Append(@, StatusRequest(JobIdFor(i)))]
                /\ pc' = [pc EXCEPT ![i] = "status"]
                /\ UNCHANGED <<caught, response>>
           ELSE /\ Fails(i, None, AnalyzeCatch(TimeoutError(JobIdFor(i)), VideoPath(i)))
                /\ UNCHANGED trace
        /\ UNCHANGED <<args, stats, presignData, data, fullJob, thrown>>
     \/ \E e \in RequestErrors : RequestFails(i, e)

ProgressLine(n) == "Still processing... (" \o Elapsed(n) \o " min elapsed)"

\* A status check returns: the body of one iteration of the poll loop, up
\* to the request or the timer it starts next.
StatusReturns(i) ==
  /\ pc[i] = "status"
  /\ \/ \E d \in StatusResponses :
          /\ data' = [data EXCEPT ![i] = Some(d)]
          /\ IF d.status = "completed"
             THEN /\ console' = [console EXCEPT ![i] = Append(@, "Analysis complete!")]
                  /\ trace' = [trace EXCEPT ![i] = Append(@, DetailRequest(jobId[i]))]
                  /\ pc' = [pc EXCEPT ![i] = "detail"]
                  /\ UNCHANGED <<caught, response>>
             ELSE IF d.status = "failed"
             THEN /\ Fails(i, None,
                           AnalyzeCatch(PollCatch(AnalysisFailedError(d.error_message, jobId[i]),
                                                  jobId[i]),
                                        VideoPath(i)))
                  /\ UNCHANGED <<console, trace>>
             ELSE /\ console' = [console EXCEPT ![i] =
                                   IF ProgressDue(attempts[i])
                                   THEN Append(@, ProgressLine(attempts[i])) ELSE @]
                  /\ trace' = [trace EXCEPT ![i] = Append(@, WaitEvent)]
                  /\ pc' = [pc EXCEPT ![i] = "wait"]
                  /\ UNCHANGED <<caught, response>>
          /\ UNCHANGED <<args, stats, attempts, presignData, jobId, fullJob, thrown>>
     \/ \E e \in RequestErrors : PollRequestFails(i, e)

\* Mutant: nothing follows the loop once the budget is used up (no timeout
\* error is thrown and the invocation is left pending).
WaitElapsesWithoutTimeout(i) ==
  /\ pc[i] = "wait"
  /\ LoopContinues(attempts[i] + 1)
  /\ attempts' = [attempts EXCEPT ![i] = @ + 1]
  /\ data' = [data EXCEPT ![i] = None]
  /\ trace' = [trace EXCEPT ![i] = Append(@, StatusRequest(jobId[i]))]
  /\ pc' = [pc EXCEPT ![i] = "status"]
  /\ UNCHANGED <<args, stats, console, presignData, jobId, fullJob, thrown, caught,
                 response>>

\* The 5 s timer fires: attempts++, then the loop condition; the timeout
\* error is thrown after the loop, outside its try.
WaitElapses(i) ==
  /\ pc[i] = "wait"
  /\ attempts' = [attempts EXCEPT ![i] = @ + 1]
  /\ data' = [data EXCEPT ![i] = None]
  /\ IF LoopContinues(attempts[i] + 1)
     THEN /\ trace' = [trace EXCEPT ![i] = Append(@, StatusRequest(jobId[i]))]
          /\ pc' = [pc EXCEPT ![i] = "status"]
          /\ UNCHANGED <<caught, response>>
     ELSE /\ Fails(i, None, AnalyzeCatch(TimeoutError(jobId[i]), VideoPath(i)))
          /\ UNCHANGED trace
  /\ UNCHANGED <<args, stats, console, presignData, jobId, fullJob, thrown>>

\* The detail request returns: pollJobStatus returns the job, analyzeVideo
\* formats it and the handler wraps the report.
DetailReturns(i) ==
  /\ pc[i] = "detail"
  /\ \/ \E job \in Jobs :
          /\ fullJob' = [fullJob EXCEPT ![i] = Some(job)]
          /\ IF formatAnalysis(job).threw
             THEN Fails(i, None, AnalyzeCatch(formatAnalysis(job).error, VideoPath(i)))
             ELSE /\ pc' = [pc EXCEPT ![i] = "done"]
                  /\ response' = [response EXCEPT ![i] =
                                    Some(SuccessEnvelope(formatAnalysis(job).text))]
                  /\ UNCHANGED caught
          /\ UNCHANGED <<args, stats, trace, console, attempts, presignData, jobId, data,
                         thrown>>
     \/ \E e \in RequestErrors : PollRequestFails(i, e)

\* process.exit(1) after `lines` were written to stderr.
Exit(lines) ==
  /\ proc' = "exited"
  /\ exitCode' = Some(1)
  /\ stderr' = stderr \o lines

\* Mutant: main() goes on after reporting the missing key.
MainWithoutExit ==
  /\ proc = "main"
  /\ apiKey' = getApiKey(env, configFile).key
  /\ client' = Some(ClipSenseClient(IF apiKey' = None THEN "null" ELSE apiKey'[1]))
  /\ server' = "created"
  /\ proc' = "connect"
  /\ stderr' = IF apiKey' = None THEN Append(stderr, NoKeyLine) ELSE stderr
  /\ UNCHANGED <<exitCode, env, configFile, listed>>

\* main() up to `await server.connect(transport)`: the key is resolved;
\* without one the process exits, with one the client and the server are
\* created and the handlers registered.
Main ==
  /\ proc = "main"
  /\ LET r == getApiKey(env, configFile)
     IN IF r.threw
        THEN /\ Exit(<<FatalLine>>)
             /\ UNCHANGED <<apiKey, client, server>>
        ELSE /\ apiKey' = r.key
             /\ IF r.key = None \/ r.key = Some("")
                THEN /\ Exit(<<NoKeyLine>>)
                     /\ UNCHANGED <<client, server>>
                ELSE /\ client' = Some(ClipSenseClient(r.key[1]))
                     /\ server' = "created"
                     /\ proc' = "connect"
                     /\ UNCHANGED <<exitCode, stderr>>
  /\ UNCHANGED <<env, configFile, listed>>

\* server.connect(transport) settles: main() logs and returns, or its
\* rejection is caught by main().catch.
Connect ==
  /\ proc = "connect"
  /\ \/ /\ server' = "connected"
        /\ proc' = "running"
        /\ stderr' = Append(stderr, RunningLine)
        /\ UNCHANGED exitCode
     \/ /\ Exit(<<FatalLine>>)
        /\ UNCHANGED server
  /\ UNCHANGED <<env, configFile, apiKey, client, listed>>

\* The ListToolsRequestSchema handler.
ListTools ==
  /\ server = "connected"
  /\ listed' = Some(Tools)
  /\ UNCHANGED <<proc, exitCode, env, configFile, apiKey, client, server, stderr>>

Invocation ==
  <<pc, args, stats, trace, console, attempts, presignData, jobId, data, fullJob,
    caught, response, thrown>>

\* A request or a timer of invocation i settles.
Settles(i) ==
  \/ PresignReturns(i)
  \/ PutReturns(i)
  \/ StartReturns(i)
  \/ StatusReturns(i)
  \/ WaitElapses(i)
  \/ DetailReturns(i)

Step(i) ==
  /\ CallTool(i) \/ Settles(i)
  /\ UNCHANGED procVars

\* One tool call at a time.
Next == Step(1)

Spec == Init /\ [][Next]_vars

\* The requests and the file system of the runs that follow the process
\* from its start: one well-formed call on a 1-byte video.
MainRequests == {Request("analyze-video", Some(Arguments(Some(MainPath), None)))}

MainFiles == [p \in {MainPath} |-> {Stat("", TRUE, 1)}]

\* The whole process, from its start.
NextMain ==
  \/ Main /\ UNCHANGED Invocation
  \/ Connect /\ UNCHANGED Invocation
  \/ ListTools /\ UNCHANGED Invocation
  \/ HandleCall(1, MainRequests, MainFiles) /\ UNCHANGED procVars
  \/ Settles(1) /\ UNCHANGED procVars

SpecMain == InitMain /\ [][NextMain]_vars

\* The requests and the file system of the runs checked for termination: a
\* well-formed call, a call without arguments and a call of another tool,
\* on a path that holds a 1-byte video or nothing.
LiveRequests ==
  MainRequests \cup {Request("analyze-video", None), Request("other-tool", None)}

LiveFiles == [p \in {MainPath} |-> {Stat("", TRUE, 1), Stat("ENOENT", FALSE, 0)}]

NextLive ==
  \/ HandleCall(1, LiveRequests, LiveFiles) /\ UNCHANGED procVars
  \/ Settles(1) /\ UNCHANGED procVars

\* Every pending request eventually returns a response or an error, and
\* every started timer eventually fires.
Fairness == WF_vars(Settles(1) /\ UNCHANGED procVars)

SpecLive == Init /\ [][NextLive]_vars /\ Fairness

\* Two calls in flight at once: the most waits that elapse in an invocation
\* of the interleaved runs.
PollBound == 2

\* Invocation 1 is given the mp4 video, invocation 2 the mov video, each
\* with or without a question.
TwoRequests(i) ==
  {Request("analyze-video",
           Some(Arguments(Some(IF i = 1 THEN MainPath ELSE Dir \o <<"v", ".", "m", "o", "v">>),
                          q))) : q \in {None, Some("Why does it crash?")}}

TwoFiles == [p \in Paths |-> {Stat("", TRUE, 1)}]

\* The handlers are async: a second call is taken while the requests of
\* the first are pending, and their steps interleave in any order.
NextTwo ==
  \E i \in Invocations :
    /\ HandleCall(i, TwoRequests(i), TwoFiles) \/ Settles(i)
    /\ attempts'[i] <= PollBound
    /\ UNCHANGED procVars

SpecTwo == Init /\ [][NextTwo]_vars

---------------------------------------------------------------------------
(* Observations on an invocation's trace, used by the properties below.     *)

\* The Authorization header event e went out with: the default header of
\* the client's axios instance for a request issued through it, none for a
\* request issued through the global axios.
AuthorizationSent(e) == IF e.auth THEN Some(client[1].Authorization) ELSE None

Ops(i) == [k \in 1..Len(trace[i]) |-> trace[i][k].op]

IsRequest(e) == e.op # "wait"

\* The requests of invocation i in the order issued, waits left out.
RequestOps(i) ==
  LET requests == SelectSeq(trace[i], IsRequest)
  IN [k \in 1..Len(requests) |-> requests[k].op]

Count(i, op) == Cardinality({k \in 1..Len(trace[i]) : trace[i][k].op = op})

Repeat(x, n) == [k \in 1..n |-> x]

\* The envelope invocation i returned.
Returned(i) == response[i][1]

Headline(i) == Returned(i).text[2]

InText(i, part) == \E k \in 1..Len(Returned(i).text) : Returned(i).text[k] = part

StatusIs(i, s) == data[i] # None /\ data[i][1].status = s

\* The detail response carries a non-empty result.response.
HasResponseText(i) ==
  /\ fullJob[i] # None
  /\ fullJob[i][1].result # None
  /\ fullJob[i][1].result[1].response # None
  /\ fullJob[i][1].result[1].response # Some("")

\* No request failed, the latest status check said `completed` and the
\* detail request returned.
CompletedRun(i) ==
  pc[i] = "done" /\ caught[i] = None /\ StatusIs(i, "completed") /\ fullJob[i] # None

---------------------------------------------------------------------------
(* C1 *)

ExpectedRequests(k) == <<"presign", "put", "start">> \o Repeat("status", k) \o <<"detail">>

\* C1 as stated: in a run where every request succeeded and the status check
\* number k = attempts + 1 was the first to say `completed`, the requests are
\* 1 presign, 1 PUT, 1 start, k status checks and 1 detail fetch in that
\* order, and the invocation returns the report rendered from the detail
\* response.
C1_AsStated ==
  CompletedRun(1) =>
    /\ RequestOps(1) = ExpectedRequests(attempts[1] + 1)
    /\ ~Returned(1).isError
    /\ HasResponseText(1) => Returned(1).text = Report(fullJob[1][1])

\* C1, amended: the detail fetch is the last request issued and is issued
\* only once `completed` was observed; a run where every request succeeded
\* and check k = attempts + 1 (1 <= k <= 120) was the first `completed` issued
\* exactly presign, PUT, start, k status checks, detail, in that order; and it
\* returns the report rendered from the detail response whenever that
\* response carries a non-empty result.response.
C1_CompletedRun ==
  /\ \A k \in 1..Len(trace[1]) :
       trace[1][k].op = "detail" => k = Len(trace[1]) /\ StatusIs(1, "completed")
  /\ CompletedRun(1) =>
       /\ attempts[1] + 1 \in 1..120
       /\ RequestOps(1) = ExpectedRequests(attempts[1] + 1)
       /\ HasResponseText(1) =>
            Returned(1) = [text |-> Report(fullJob[1][1]), isError |-> FALSE]

\* `completed` on the third status check, with a result: 3 status checks.
C1_Witness ==
  /\ CompletedRun(1)
  /\ HasResponseText(1)
  /\ attempts[1] = 2
  /\ Count(1, "status") = 3
  /\ Count(1, "detail") = 1
  /\ ~Returned(1).isError

---------------------------------------------------------------------------
(* C2 *)

\* C2: when a status check says `failed`, the invocation is over with that
\* check as the last thing it did (no later status check, no detail fetch, no
\* wait), and the failure it reports carries the server's error_message, or
\* "Unknown error" without one, and the job id.
C2_FailedStops ==
  StatusIs(1, "failed") =>
    /\ pc[1] = "done"
    /\ ~ENABLED Next
    /\ Ops(1)[Len(trace[1])] = "status"
    /\ Count(1, "status") = attempts[1] + 1
    /\ Count(1, "wait") = attempts[1]
    /\ Count(1, "detail") = 0
    /\ Returned(1).isError
    /\ Headline(1) = "Analysis failed"
    /\ InText(1, IF data[1][1].error_message # "" THEN data[1][1].error_message
                 ELSE "Unknown error")
    /\ InText(1, jobId[1])

\* `failed` with a server message on the third check.
C2_Witness ==
  /\ StatusIs(1, "failed")
  /\ data[1][1].error_message = "decoder crashed"
  /\ attempts[1] = 2
  /\ InText(1, "decoder crashed")

---------------------------------------------------------------------------
(* C3 *)

StatusThenWait(n) == [k \in 1..(2 * n) |-> IF k % 2 = 1 THEN "status" ELSE "wait"]

\* An invocation that ended on a wait: the loop ran out of attempts.
EndedOnWait(i) ==
  pc[i] = "done" /\ Len(trace[i]) > 0 /\ Ops(i)[Len(trace[i])] = "wait"

\* C3: there is never a 121st status check; while polling, the number of
\* status checks is attempts + 1 <= 120; and a poll loop in which every check
\* succeeded with a non-terminal status ends after exactly 120 status checks,
\* each followed by one 5 s wait, without a detail fetch, in the timeout
\* diagnosis, which carries the job id and the status-check URL.
C3_TimeoutAfter120 ==
  /\ Count(1, "status") <= 120
  /\ pc[1] \in {"status", "wait"} =>
       attempts[1] < 120 /\ Count(1, "status") = attempts[1] + 1
  /\ EndedOnWait(1) =>
       /\ Ops(1) = <<"presign", "put", "start">> \o StatusThenWait(120)
       /\ \A k \in 1..Len(trace[1]) :
            trace[1][k].op = "wait" => trace[1][k].body = <<"5000">>
       /\ caught[1] = None
       /\ Returned(1).isError
       /\ Headline(1) = "Analysis timeout"
       /\ InText(1, jobId[1])
       /\ InText(1, "https://clipsense.app/results/" \o jobId[1])

C3_Witness ==
  /\ EndedOnWait(1)
  /\ Count(1, "status") = 120
  /\ Count(1, "wait") = 120
  /\ Headline(1) = "Analysis timeout"

---------------------------------------------------------------------------
(* C4 *)

\* The requests issued so far are a prefix of presign, PUT, start, status*,
\* detail, each stage issued with the previous one's result in hand.
InPipelineOrder(i) ==
  /\ LET r == RequestOps(i)
     IN \A k \in 1..Len(r) :
          /\ k = 1 => r[k] = "presign"
          /\ k = 2 => r[k] = "put"
          /\ k = 3 => r[k] = "start"
          /\ k > 3 => r[k] \in {"status", "detail"}
          /\ r[k] = "detail" => k = Len(r) /\ k > 4
  /\ Count(i, "put") > 0 => presignData[i] # NoPresign
  /\ Count(i, "start") > 0 =>
       \E k \in 1..Len(console[i]) : console[i][k] = "Upload complete. Starting analysis..."
  /\ Count(i, "status") > 0 => jobId[i] # ""
  /\ Count(i, "detail") > 0 => StatusIs(i, "completed")

\* C4: the requests of an invocation follow the order presign, PUT, start,
\* status*, detail, each stage after the previous one returned successfully,
\* with presign, PUT, start and detail at most once; and once a request has
\* failed the invocation is over: it takes no further step, so it issues
\* nothing more.
C4_SequentialNoRetry ==
  /\ InPipelineOrder(1)
  /\ caught[1] # None => pc[1] = "done" /\ ~ENABLED Next

\* A PUT that failed after a successful presign: nothing follows it.
C4_Witness ==
  /\ pc[1] = "done"
  /\ caught[1] # None
  /\ RequestOps(1) = <<"presign", "put">>

---------------------------------------------------------------------------
(* C5 *)

ValidationHeadlines ==
  {"Video file not found: ", "Failed to access video file: ", "Path is not a file: ",
   "Video file is empty (0 bytes): ", "Video file too large: ",
   "Unsupported video format: ."}

\* The call named the tool and carried an arguments object.
HasArguments(i) == args[i].name = "analyze-video" /\ args[i].arguments # None

\* The call carried a videoPath and validation has run on it.
Validated(i) == pc[i] # "idle" /\ HasArguments(i) /\ VideoPath(i) # None

\* The invocation ended in a validation rejection.
Rejected(i) ==
  /\ response[i] # None
  /\ Returned(i).isError
  /\ Headline(i) \in ValidationHeadlines

\* The path is missing or inaccessible, not a regular file, empty or too large.
UnusableFile(i) ==
  \/ stats[i].err # ""
  \/ ~stats[i].isFile
  \/ stats[i].size = 0
  \/ stats[i].size > 524288000

\* C5: an invocation that ends in a validation rejection, whatever its
\* reason, has issued no request at all; and a path that is missing,
\* inaccessible, not a regular file, empty or too large is always rejected so.
C5_RejectedBeforeNetwork ==
  /\ Rejected(1) => trace[1] = <<>> /\ pc[1] = "done"
  /\ Validated(1) /\ UnusableFile(1) => Rejected(1) /\ trace[1] = <<>>

\* A readable, non-empty file with an unsupported extension, rejected.
C5_Witness ==
  /\ Rejected(1)
  /\ Headline(1) = "Unsupported video format: ."
  /\ ~UnusableFile(1)
  /\ trace[1] = <<>>

---------------------------------------------------------------------------
(* C6 *)

\* An existing regular file named v.<allow-listed format>.
SizeCase(i) ==
  /\ Validated(i)
  /\ VideoPath(i)[1] \in GoodPaths
  /\ stats[i].err = ""
  /\ stats[i].isFile

\* C6: for an existing regular file with an allowed extension, validation
\* rejects iff the size is 0 (as empty) or above 524288000 (as too large);
\* every other size, 1 and 524288000 included, is accepted and presigned.
C6_SizeBounds ==
  SizeCase(1) =>
    /\ Rejected(1) <=> (stats[1].size = 0 \/ stats[1].size > 524288000)
    /\ stats[1].size = 0 => Headline(1) = "Video file is empty (0 bytes): "
    /\ stats[1].size > 524288000 => Headline(1) = "Video file too large: "
    /\ (stats[1].size >= 1 /\ stats[1].size <= 524288000) =>
         Len(trace[1]) > 0 /\ trace[1][1].op = "presign"

\* The file of exactly 524288000 bytes is accepted.
C6_Witness ==
  /\ SizeCase(1)
  /\ stats[1].size = 524288000
  /\ Len(trace[1]) > 0
  /\ ~Rejected(1)

---------------------------------------------------------------------------
(* C7 *)

\* The extension of the file a path names: what follows the last dot of its
\* last component, lower-cased; none (the empty text) without a dot.
FileExtension(vp) ==
  IF IndicesOf(basename(vp), ".") = {} THEN <<>>
  ELSE SplitPop(toLowerCase(basename(vp)), ".")

\* An existing, non-empty regular file of at most 500 MiB.
ExtensionCase(i) ==
  /\ Validated(i)
  /\ stats[i].err = ""
  /\ stats[i].isFile
  /\ stats[i].size >= 1
  /\ stats[i].size <= 524288000

\* C7 as stated: an existing, non-empty regular file of at most 500 MiB is
\* accepted iff its file extension, case-insensitively, is one of the 10
\* allow-listed formats; every other file, one without an extension
\* included, is rejected as an unsupported format.
C7_ExtensionAllowList ==
  ExtensionCase(1) =>
    IF Includes(supportedFormats, FileExtension(VideoPath(1)[1]))
    THEN Len(trace[1]) > 0 /\ ~Rejected(1)
    ELSE Rejected(1) /\ Headline(1) = "Unsupported video format: ."

---------------------------------------------------------------------------
(* C8 *)

\* C8: the rejection reason is that of the first failing check in the order
\* existence, regular file, size > 0, size <= limit, extension: a missing or
\* inaccessible path is reported as such whatever else is wrong with it, a
\* non-file as "not a file" whatever its size and name, an empty file as
\* "empty" and an oversized one as "too large" whatever their names, and
\* "unsupported format" is reported only for a readable, non-empty regular
\* file within the limit.
C8_FirstFailingCheck ==
  Validated(1) =>
    /\ stats[1].err = "ENOENT" => Rejected(1) /\ Headline(1) = "Video file not found: "
    /\ stats[1].err \notin {"", "ENOENT"} =>
         Rejected(1) /\ Headline(1) = "Failed to access video file: "
    /\ (stats[1].err = "" /\ ~stats[1].isFile) =>
         Rejected(1) /\ Headline(1) = "Path is not a file: "
    /\ (stats[1].err = "" /\ stats[1].isFile /\ stats[1].size = 0) =>
         Rejected(1) /\ Headline(1) = "Video file is empty (0 bytes): "
    /\ (stats[1].err = "" /\ stats[1].isFile /\ stats[1].size > 524288000) =>
         Rejected(1) /\ Headline(1) = "Video file too large: "
    /\ (Rejected(1) /\ Headline(1) = "Unsupported video format: .") => ~UnusableFile(1)
    /\ (~UnusableFile(1) /\ VideoPath(1)[1] = Dir \o <<"v", ".", "t", "x", "t">>) =>
         Rejected(1) /\ Headline(1) = "Unsupported video format: ."

\* An empty file with an unsupported extension is reported as empty.
C8_Witness ==
  /\ Validated(1)
  /\ VideoPath(1)[1] = Dir \o <<"v", ".", "t", "x", "t">>
  /\ stats[1].err = ""
  /\ stats[1].isFile
  /\ stats[1].size = 0
  /\ Headline(1) = "Video file is empty (0 bytes): "

---------------------------------------------------------------------------
(* C9 *)

\* Some stage of invocation i failed: validation (nothing was ever
\* requested), a request of the upload, start or poll stages, the job itself,
\* the poll budget, or formatting.
StageFailed(i) ==
  \/ trace[i] = <<>>
  \/ caught[i] # None
  \/ StatusIs(i, "failed")
  \/ EndedOnWait(i)
  \/ fullJob[i] # None /\ ~HasResponseText(i)

\* C9: a call of analyze-video that carries arguments never ends in a thrown
\* error; once it is over, its envelope has isError set and a text that
\* begins with the error marker iff some stage failed, and otherwise has no
\* isError and exactly the formatter's report as its text.
C9_EnvelopeMatchesOutcome ==
  HasArguments(1) =>
    /\ pc[1] # "threw"
    /\ thrown[1] = None
    /\ pc[1] = "done" =>
         /\ response[1] # None
         /\ StageFailed(1) <=> Returned(1).isError
         /\ Returned(1).isError <=> Returned(1).text[1] = ErrorMarker
         /\ ~StageFailed(1) =>
              HasResponseText(1) /\ Returned(1).text = Report(fullJob[1][1])

\* A completed job without a result: the formatting stage fails.
C9_Witness ==
  /\ HasArguments(1)
  /\ pc[1] = "done"
  /\ fullJob[1] # None
  /\ ~HasResponseText(1)
  /\ Returned(1).isError
  /\ Returned(1).text[1] = ErrorMarker

---------------------------------------------------------------------------
(* C10 *)

\* A request of invocation i failed with an HTTP error response.
HttpFailure(i) == caught[i] # None /\ caught[i][1].response # None

FailedStatus(i) == caught[i][1].response[1].status

HttpHeadlines ==
  {"Authentication failed", "Rate limit exceeded", "Video file too large for server",
   "ClipSense server error (", "API error ("}

ExpectedHeadline(status) ==
  IF status \in {401, 403} THEN "Authentication failed"
  ELSE IF status = 429 THEN "Rate limit exceeded"
  ELSE IF status = 413 THEN "Video file too large for server"
  ELSE IF status >= 500 THEN "ClipSense server error ("
  ELSE "API error ("

\* C10: an HTTP error response to any request of the pipeline ends the
\* invocation in exactly one diagnosis, chosen by the status code alone
\* (401/403 authentication, 429 rate limit, 413 payload too large, >= 500
\* server error, anything else generic API error), and the start request is
\* never issued twice.
C10_HttpClassification ==
  /\ Count(1, "start") <= 1
  /\ HttpFailure(1) =>
       /\ pc[1] = "done"
       /\ Returned(1).isError
       /\ Headline(1) = ExpectedHeadline(FailedStatus(1))
       /\ {h \in HttpHeadlines : InText(1, h)} = {ExpectedHeadline(FailedStatus(1))}

\* A 429 answer to the start request.
C10_Witness ==
  /\ HttpFailure(1)
  /\ FailedStatus(1) = 429
  /\ RequestOps(1) = <<"presign", "put", "start">>
  /\ Headline(1) = "Rate limit exceeded"

---------------------------------------------------------------------------
(* C11 *)

\* A status check of invocation i failed without an HTTP response.
StatusCheckLost(i) ==
  /\ caught[i] # None
  /\ caught[i][1].response = None
  /\ Len(trace[i]) > 0
  /\ trace[i][Len(trace[i])].op = "status"

\* C11 as stated: a status check that fails with connection refused, host
\* not found or a timeout (ETIMEDOUT, or ECONNABORTED, the code of the HTTP
\* client's own timeout) ends the invocation in the "lost connection"
\* diagnosis, which carries the job id and the status-check URL, and nothing
\* follows it.
C11_LostConnection ==
  (StatusCheckLost(1) /\
   caught[1][1].code \in {"ECONNREFUSED", "ENOTFOUND", "ETIMEDOUT", "ECONNABORTED"}) =>
    /\ pc[1] = "done"
    /\ ~ENABLED Next
    /\ Returned(1).isError
    /\ Headline(1) = "Lost connection to ClipSense API"
    /\ InText(1, jobId[1])
    /\ InText(1, "https://clipsense.app/results/" \o jobId[1])

---------------------------------------------------------------------------
(* C12 *)

\* The config file yields a key: it exists, is readable JSON for an object
\* and that object has a non-empty apiKey.
ConfigHasKey ==
  /\ configFile.exists
  /\ configFile.readable
  /\ configFile.parses
  /\ configFile.object
  /\ configFile.apiKey \notin {None, Some("")}

EnvHasKey == env \notin {None, Some("")}

\* A step of a tool handler, of a pending request or of a timer.
Handled ==
  \/ ListTools
  \/ \E i \in Invocations : HandleCall(i, MainRequests, MainFiles) \/ Settles(i)

\* C12: a process without a credential (no key in the environment, none in
\* the config file) goes from the start of main() straight to exit status 1:
\* it creates no client and no server, connects nothing, handles no
\* tools/list and no tools/call request and issues no HTTP request, and no
\* handler can run in it.
C12_NoCredentialExits ==
  (~EnvHasKey /\ ~ConfigHasKey) =>
    /\ proc \in {"main", "exited"}
    /\ proc = "exited" => exitCode = Some(1) /\ stderr = <<NoKeyLine>>
    /\ proc = "main" => exitCode = None
    /\ client = None
    /\ server = "none"
    /\ listed = None
    /\ \A i \in Invocations : pc[i] = "idle" /\ trace[i] = <<>> /\ response[i] = None
    /\ ~ENABLED Handled
    /\ ~ENABLED Connect

\* The key variable is empty and the config file is malformed: exited.
C12_Witness ==
  /\ env = Some("")
  /\ configFile.exists /\ configFile.readable /\ ~configFile.parses
  /\ proc = "exited"
  /\ exitCode = Some(1)
  /\ server = "none"

---------------------------------------------------------------------------
(* C13 *)

\* C13: once main() has called getApiKey, the key it holds is the
\* environment variable's value if that is set and non-empty, whatever the
\* config file; otherwise the config file's apiKey if the file exists, parses
\* and has a non-empty apiKey; otherwise null; and getApiKey has not thrown
\* (main() did not end in its fatal-error handler before creating the server).
C13_KeyResolution ==
  /\ ~getApiKey(env, configFile).threw
  /\ proc # "main" =>
       /\ apiKey = (IF EnvHasKey THEN env ELSE IF ConfigHasKey THEN configFile.apiKey
                    ELSE None)
       /\ server = "none" => stderr = <<NoKeyLine>> /\ apiKey = None

\* An empty key variable falls through to the key of the config file.
C13_Witness ==
  /\ env = Some("")
  /\ configFile.apiKey = Some("sk_cfg")
  /\ apiKey = Some("sk_cfg")
  /\ proc = "running"

---------------------------------------------------------------------------
(* C14 *)

\* The credential a process with a credential resolves at its start.
ResolvedKey == IF EnvHasKey THEN env[1] ELSE configFile.apiKey[1]

\* C14: every presign, start, status and detail request goes to the service
\* (a path under the client's base URL) with the header "Bearer <key>", the
\* key being the one resolved at process start; the PUT goes to the upload
\* URL of the presign response with no Authorization header.
C14_BearerOnlyToService ==
  \A k \in 1..Len(trace[1]) :
    /\ trace[1][k].op \in {"presign", "start", "status", "detail"} =>
         /\ AuthorizationSent(trace[1][k]) = Some("Bearer " \o ResolvedKey)
         /\ client[1].baseURL = "https://api.clipsense.app/api/v1"
         /\ trace[1][k].url # PresignFor(1).upload_url
    /\ trace[1][k].op = "put" =>
         /\ AuthorizationSent(trace[1][k]) = None
         /\ trace[1][k].url = PresignFor(1).upload_url

\* A completed run of a process whose key came from the config file.
C14_Witness ==
  /\ apiKey = Some("sk_cfg")
  /\ pc[1] = "done"
  /\ RequestOps(1) = <<"presign", "put", "start", "status", "detail">>
  /\ AuthorizationSent(trace[1][1]) = Some("Bearer sk_cfg")
  /\ AuthorizationSent(trace[1][2]) = None

---------------------------------------------------------------------------
(* C15 *)

\* C15: once the detail response is in, an invocation whose job has no
\* (or an empty) result.response has ended in the error envelope of the
\* missing-result failure, never in a report; one whose job has a response
\* has ended in a report that shows the response and renders an absent frame
\* count as "N/A", absent token usage as 0 and an absent cost as $0.0000.
C15_MissingResultFails ==
  (pc[1] = "done" /\ fullJob[1] # None) =>
    IF ~HasResponseText(1)
    THEN /\ Returned(1).isError
         /\ Returned(1).text[1] = ErrorMarker
         /\ Headline(1) = "No analysis result found"
    ELSE /\ ~Returned(1).isError
         /\ Len(Returned(1).text) = 10
         /\ Returned(1).text[1] = "## Mobile Bug Analysis"
         /\ Returned(1).text[2] = fullJob[1][1].result[1].response[1]
         /\ fullJob[1][1].frames_extracted = None => Returned(1).text[6] = "N/A"
         /\ fullJob[1][1].tokens_used = None => Returned(1).text[8] = "0"
         /\ fullJob[1][1].cost_total = None =>
              Returned(1).text[9] = "- Cost: $" /\ Returned(1).text[10] = "0.0000"

\* A completed job whose detail response has no result at all.
C15_Witness ==
  /\ pc[1] = "done"
  /\ fullJob[1] # None
  /\ fullJob[1][1].result = None
  /\ StatusIs(1, "completed")
  /\ Returned(1).isError
  /\ Headline(1) = "No analysis result found"

---------------------------------------------------------------------------
(* C16 *)

\* A job whose response, frame count, token usage and cost are all present.
AllPresent(job) ==
  /\ job.result # None
  /\ job.result[1].response # None
  /\ job.result[1].response # Some("")
  /\ job.frames_extracted # None
  /\ job.tokens_used # None
  /\ job.cost_total # None

\* The dollar amounts of the jobs the service returns (0.0123 and 12.34567
\* dollars), to 4 decimals.
DollarText(cost) == IF cost = 1230 THEN "0.0123" ELSE "12.3457"

\* C16 as stated: the report of a job with response R, frame count F, token
\* usage T and cost C, all present, shows R, F, T and C as a dollar amount
\* with 4 decimals, each once, in the template's slots.
C16_ReportShowsFields ==
  (pc[1] = "done" /\ fullJob[1] # None /\ AllPresent(fullJob[1][1])) =>
    /\ ~Returned(1).isError
    /\ Len(Returned(1).text) = 10
    /\ Returned(1).text[2] = fullJob[1][1].result[1].response[1]
    /\ Returned(1).text[6] = ToString(fullJob[1][1].frames_extracted[1])
    /\ Returned(1).text[8] = ToString(fullJob[1][1].tokens_used[1])
    /\ Returned(1).text[9] = "- Cost: $"
    /\ Returned(1).text[10] = DollarText(fullJob[1][1].cost_total[1])

---------------------------------------------------------------------------
(* C17 *)

\* C17 as stated: a call of analyze-video, whatever its arguments (none at
\* all, or none named videoPath), never ends in a thrown error: once over, it
\* has returned an envelope.
C17_AlwaysAnEnvelope ==
  args[1].name = "analyze-video" =>
    /\ pc[1] # "threw"
    /\ thrown[1] = None
    /\ pc[1] = "done" => response[1] # None

---------------------------------------------------------------------------
(* C18 *)

\* C18: a status check is issued only right after the start request returned
\* (the first one) or after a wait has elapsed, a wait is started only right
\* after a status check returned, every wait is 5000 ms, at most one status
\* check or wait is pending at a time, and no wait follows a check that
\* returned `completed` or `failed`.
C18_OneWaitBetweenChecks ==
  /\ \A k \in 1..Len(trace[1]) :
       /\ trace[1][k].op = "status" =>
            k > 1 /\ trace[1][k - 1].op \in {"start", "wait"}
       /\ (trace[1][k].op = "status" /\ trace[1][k - 1].op = "start") =>
            Count(1, "status") + Count(1, "wait") + Count(1, "detail") = Len(trace[1]) - k + 1
       /\ trace[1][k].op = "wait" =>
            k > 1 /\ trace[1][k - 1].op = "status" /\ trace[1][k].body = <<"5000">>
  /\ pc[1] = "status" => trace[1][Len(trace[1])].op = "status"
  /\ pc[1] = "wait" => trace[1][Len(trace[1])].op = "wait"
  /\ Count(1, "wait") = attempts[1] + (IF pc[1] = "wait" THEN 1 ELSE 0)
  /\ (StatusIs(1, "completed") \/ StatusIs(1, "failed")) =>
       /\ Count(1, "wait") = Count(1, "status") - 1
       /\ \A k \in 1..Len(trace[1]) : trace[1][k].op = "wait" => k < Len(trace[1])

\* Three checks, two waits between them, `completed` on the third.
C18_Witness ==
  /\ StatusIs(1, "completed")
  /\ pc[1] = "detail"
  /\ Ops(1) = <<"presign", "put", "start", "status", "wait", "status", "wait", "status",
                "detail">>

---------------------------------------------------------------------------
(* C19 *)

\* The progress notices among the lines written to stderr: the lines after
\* the three of the upload and start stages, "Analysis complete!" left out.
IsNotice(line) == line # "Analysis complete!"

Notices(i) ==
  IF Len(console[i]) <= 3 THEN <<>>
  ELSE SelectSeq(SubSeq(console[i], 4, Len(console[i])), IsNotice)

\* The notice of attempt index 6k: elapsed minutes 6k * 5 / 60 = k / 2.
ExpectedNotice(k) ==
  "Still processing... (" \o ToString(k \div 2) \o "." \o
  (IF k % 2 = 1 THEN "5" ELSE "0") \o " min elapsed)"

\* Status checks answered with a non-terminal status so far (each started
\* one wait); their attempt indices are 0 .. n - 1.
NonTerminalChecks(i) == Count(i, "wait")

\* C19: the notices written so far are exactly those of the non-terminal
\* checks at attempt indices 6, 12, ... (none at index 0, none on a terminal
\* check), in order, each reporting index * 5 / 60 minutes; a run that times
\* out has written 19 of them.
C19_ProgressNotices ==
  /\ Notices(1) =
       [k \in 1..(IF NonTerminalChecks(1) = 0 THEN 0 ELSE (NonTerminalChecks(1) - 1) \div 6)
          |-> ExpectedNotice(k)]
  /\ EndedOnWait(1) => Len(Notices(1)) = 19

\* A run that timed out, with its 19 notices, the last at index 114.
C19_Witness ==
  /\ EndedOnWait(1)
  /\ Len(Notices(1)) = 19
  /\ Notices(1)[19] = "Still processing... (9.5 min elapsed)"

---------------------------------------------------------------------------
(* C20 *)

\* C20: every path that passed validation has an entry in the content-type
\* table for its extension, so the presign request carries that entry and
\* not the mp4 default, and the PUT of the invocation carries the same
\* content type as its presign request.
C20_ContentTypeFromTable ==
  Len(trace[1]) > 0 =>
    /\ \A k \in 1..Len(supportedFormats) : TypesTable(supportedFormats[k]) # ""
    /\ trace[1][1].op = "presign"
    /\ TypesTable(ExtOf(VideoPath(1)[1])) # ""
    /\ trace[1][1].body[2] = TypesTable(ExtOf(VideoPath(1)[1]))
    /\ Len(trace[1]) > 1 =>
         /\ trace[1][2].op = "put"
         /\ trace[1][2].body = <<trace[1][1].body[2]>>

\* A mixed-case .MoV file, presigned and uploaded as video/quicktime.
C20_Witness ==
  /\ Len(trace[1]) > 1
  /\ VideoPath(1)[1] = Dir \o <<"v", ".", "M", "o", "V">>
  /\ trace[1][1].body[2] = "video/quicktime"
  /\ trace[1][2].body = <<"video/quicktime">>

---------------------------------------------------------------------------
(* C21 *)

\* analyzeVideo of invocation i has a request or a timer pending.
InFlight(i) == pc[i] \in {"presign", "put", "start", "status", "wait", "detail"}

\* The ways an invocation ends: the report, the poll timeout, another failure.
EndedInReport(i) == pc[i] = "done" /\ ~Returned(i).isError

EndedInTimeout(i) ==
  /\ pc[i] = "done"
  /\ Returned(i).isError
  /\ Returned(i).text[2] = "Analysis timeout"

EndedInFailure(i) ==
  /\ pc[i] = "done"
  /\ Returned(i).isError
  /\ Returned(i).text[2] # "Analysis timeout"

Ended(i) == EndedInReport(i) \/ EndedInTimeout(i) \/ EndedInFailure(i)

\* C21: if every pending request eventually returns and every timer fires,
\* an invocation with a request or a timer pending eventually ends, in the
\* report, in a reported failure or in the poll timeout, whatever statuses
\* the server answers; and an ended invocation stays ended.
C21_Terminates ==
  /\ InFlight(1) ~> Ended(1)
  /\ [](Ended(1) => [](Ended(1) /\ ~InFlight(1)))

\* The server never answered a terminal status: the invocation ended in the
\* poll timeout after 120 attempts and nothing remains pending.
C21_Witness ==
  /\ EndedInTimeout(1)
  /\ attempts[1] = 120
  /\ data[1] = None
  /\ caught[1] = None
  /\ ~ENABLED NextLive

---------------------------------------------------------------------------
(* C22 *)

\* Everything invocation i holds.
Local(i) ==
  <<pc[i], args[i], stats[i], trace[i], console[i], attempts[i], presignData[i],
    jobId[i], data[i], fullJob[i], caught[i], response[i], thrown[i]>>

\* Invocation i used what its own requests returned: its start request
\* carries the video key of its own presign, its status and detail requests
\* name the job of its own start, its PUT goes to its own upload URL, and its
\* counter counts its own elapsed waits.
UsesItsOwn(i) ==
  /\ \A k \in 1..Len(trace[i]) :
       /\ trace[i][k].op = "put" =>
            trace[i][k].url = "https://r2.example/upload/" \o ToString(i)
       /\ trace[i][k].op = "start" =>
            trace[i][k].body[1] = "videos/key_" \o ToString(i)
       /\ trace[i][k].op = "status" =>
            trace[i][k].url = "/analyze/jobs/job_" \o ToString(i) \o "/status"
       /\ trace[i][k].op = "detail" =>
            trace[i][k].url = "/analyze/jobs/job_" \o ToString(i)
  /\ jobId[i] \in {"", "job_" \o ToString(i)}
  /\ Count(i, "wait") = attempts[i] + (IF pc[i] = "wait" THEN 1 ELSE 0)
  /\ (pc[i] = "done" /\ response[i] # None /\ Returned(i).isError) =>
       \A j \in Invocations \ {i} : ~InText(i, "job_" \o ToString(j))

\* The outcome of invocation i, from what its own requests returned.
OutcomeAlone(i) ==
  IF caught[i] # None
  THEN IF caught[i][1].response # None THEN Returned(i).isError /\ Headline(i) \in HttpHeadlines
       ELSE Returned(i).isError
  ELSE IF StatusIs(i, "failed")
  THEN Returned(i).isError /\ Headline(i) = "Analysis failed" /\ InText(i, "job_" \o ToString(i))
  ELSE IF fullJob[i] # None /\ HasResponseText(i)
  THEN ~Returned(i).isError /\ Returned(i).text[2] = fullJob[i][1].result[1].response[1]
  ELSE Returned(i).isError

\* C22: with two invocations in flight on the one client, each uses only
\* what its own requests returned and ends as its own server responses
\* dictate, the client's header is never changed, and every step changes
\* the state of one invocation and leaves the other's untouched.
C22_NoInterference ==
  /\ [](\A i \in Invocations :
          /\ UsesItsOwn(i)
          /\ pc[i] = "done" => OutcomeAlone(i))
  /\ [][/\ client' = client
        /\ \E i \in Invocations : \A j \in Invocations \ {i} : Local(j)' = Local(j)]_vars

\* Both invocations are polling at once, each for its own job: the first
\* waits after its second check while the check of the second is pending.
C22_Witness ==
  /\ pc[1] = "wait" /\ pc[2] = "status"
  /\ attempts[1] = 1 /\ attempts[2] = 0
  /\ jobId[1] = "job_1" /\ jobId[2] = "job_2"
  /\ trace[1][Len(trace[1]) - 1].url = "/analyze/jobs/job_1/status"
  /\ trace[2][Len(trace[2])].url = "/analyze/jobs/job_2/status"

---------------------------------------------------------------------------
(* C23 *)

\* Invocation i ended in the timeout diagnosis.
TimedOut(i) ==
  pc[i] = "done" /\ Returned(i).isError /\ Headline(i) = "Analysis timeout"

\* C23: an invocation that ended in the timeout diagnosis issued 120 status
\* checks, each answered with a non-terminal status and followed by a wait,
\* with no failed request and no detail fetch; a check answered `completed`,
\* the 120th included, is followed by the detail fetch; a check answered
\* `failed`, or a failed request, ends the invocation in that failure.
C23_TimeoutOnlyAfterAllChecks ==
  /\ TimedOut(1) =>
       /\ Ops(1) = <<"presign", "put", "start">> \o StatusThenWait(120)
       /\ attempts[1] = 120
       /\ caught[1] = None
       /\ fullJob[1] = None
       /\ ~StatusIs(1, "completed") /\ ~StatusIs(1, "failed")
  /\ StatusIs(1, "completed") =>
       /\ pc[1] \in {"detail", "done"}
       /\ Count(1, "detail") = 1
       /\ trace[1][Len(trace[1])].op = "detail"
       /\ trace[1][Len(trace[1]) - 1].op = "status"
       /\ ~TimedOut(1)
  /\ (pc[1] = "done" /\ StatusIs(1, "failed")) =>
       Returned(1).isError /\ Headline(1) = "Analysis failed"
  /\ (pc[1] = "done" /\ caught[1] # None) =>
       Returned(1).isError /\ Headline(1) # "Analysis timeout"

\* The 120th check said `completed`: the detail fetch followed and the
\* invocation returned its report.
C23_Witness ==
  /\ Count(1, "status") = 120
  /\ attempts[1] = 119
  /\ StatusIs(1, "completed")
  /\ Count(1, "detail") = 1
  /\ pc[1] = "done"
  /\ ~Returned(1).isError

---------------------------------------------------------------------------
(* C24 *)

\* The end of every error envelope: the blank line and the empty details.
EnvelopeEnd == <<"\n\n", "">>

\* A request of the poll loop of invocation i failed with one of the codes
\* its catch rewrites.
LostInPoll(i) ==
  /\ caught[i] # None
  /\ caught[i][1].response = None
  /\ caught[i][1].code \in {"ECONNREFUSED", "ENOTFOUND", "ETIMEDOUT"}
  /\ trace[i][Len(trace[i])].op \in {"status", "detail"}

\* C24: an invocation that ended in a diagnosis of the pipeline itself (job
\* failed, lost connection, poll timeout, missing result) returned the error
\* envelope whose text is the error marker, that diagnosis word for word and
\* the envelope's end; in particular its headline is none of the HTTP,
\* connectivity or request-timeout headlines.
C24_DiagnosesPassThrough ==
  pc[1] = "done" =>
    /\ StatusIs(1, "failed") =>
         /\ Returned(1).isError
         /\ Returned(1).text =
              <<ErrorMarker, "Analysis failed", "Error details: ",
                IF data[1][1].error_message = "" THEN "Unknown error"
                ELSE data[1][1].error_message,
                "Contact support@clipsense.app with job ID: ", jobId[1]>> \o EnvelopeEnd
    /\ LostInPoll(1) =>
         /\ Returned(1).isError
         /\ Returned(1).text =
              <<ErrorMarker, "Lost connection to ClipSense API",
                "Your video is still being processed (Job ID: ", jobId[1],
                "Visit: ", "https://clipsense.app/results/" \o jobId[1], "Error: ">>
              \o caught[1][1].message \o EnvelopeEnd
    /\ EndedOnWait(1) =>
         /\ Returned(1).isError
         /\ Returned(1).text =
              <<ErrorMarker, "Analysis timeout",
                "Visit: ", "https://clipsense.app/results/" \o jobId[1],
                "Contact support@clipsense.app with job ID: ", jobId[1]>> \o EnvelopeEnd
    /\ (fullJob[1] # None /\ ~HasResponseText(1)) =>
         /\ Returned(1).isError
         /\ Returned(1).text = <<ErrorMarker, "No analysis result found">> \o EnvelopeEnd
    /\ (StatusIs(1, "failed") \/ LostInPoll(1) \/ EndedOnWait(1) \/
        (fullJob[1] # None /\ ~HasResponseText(1))) =>
         Headline(1) \notin HttpHeadlines \cup
                            {"Cannot connect to ClipSense API", "Request timeout"}

\* The detail fetch lost its connection: reported as the lost connection.
C24_Witness ==
  /\ pc[1] = "done"
  /\ LostInPoll(1)
  /\ trace[1][Len(trace[1])].op = "detail"
  /\ caught[1][1].code = "ENOTFOUND"
  /\ Headline(1) = "Lost connection to ClipSense API"

====
